---- MODULE Spec2Model ----
(***************************************************************************)
(* Cryptographic sortition (src/src/sortition/mod.rs).                     *)
(*                                                                         *)
(* check_select proves a seed with the VRF, turns the VRF hash into a      *)
(* ratio in the unit interval and walks the CDF of Binomial(money, p) to   *)
(* find the number of votes; verify_select checks a proof with the VRF.    *)
(*                                                                         *)
(* Numbers.  A BigUint is a big-endian sequence of bits without leading    *)
(* zeros (<<>> is 0).  An f64 that holds a non-negative integer is the     *)
(* bit sequence of that integer, which has at most MantBits significant    *)
(* bits.  The ratio num / denom is kept as the pair of the two f64         *)
(* operands: denom is a power of two, so the f64 division is exact.        *)
(* p = threshold / total_money is kept as the pair [num, den]; the model   *)
(* draws total_money from powers of two, for which that division is exact  *)
(* too (den = 0 stands for the infinities and the NaN of a division by     *)
(* zero).  statrs' Binomial::cdf is the binomial CDF, as a fraction.       *)
(*                                                                         *)
(* The VRF (crate vrf, ECVRF) is an external capability.  A proof is the   *)
(* record of the key and the seed it was made from and of the hash (beta)  *)
(* it determines; the hash itself is any value the VRF may output.         *)
(***************************************************************************)
EXTENDS Integers, Sequences, FiniteSets, TLC

\* ------------------------------------------------------------------ bounds
MaxHashLen == 8
MaxMoney == 3
MaxThreshold == 4
MaxTotalExp == 2

\* significant bits of an f64
MantBits == 53

\* ---------------------------------------------------------------- BigUint
Zeros(k) == SubSeq([i \in 1..k |-> 0], 1, k)

\* a bit sequence without its leading zeros
Strip(bits) ==
    LET ones == { i \in 1..Len(bits) : bits[i] = 1 }
    IN  IF ones = {} THEN <<>>
        ELSE SubSeq(bits, CHOOSE i \in ones : \A j \in ones : i <= j,
                    Len(bits))

\* the bits of the bytes, the first byte first
BytesToBits(bytes) ==
    LET n == 8 * Len(bytes)
    IN  SubSeq([i \in 1..n |->
                   (bytes[((i - 1) \div 8) + 1] \div (2 ^ (7 - ((i - 1) % 8)))) % 2],
               1, n)

\* BigUint::from_bytes_be
FromBytesBe(bytes) == Strip(BytesToBits(bytes))

\* x + y on raw bit sequences of one length, least significant bit last;
\* the result has one more bit (the carry out).  A carry enters position i
\* when some position below it has both bits set and no position between
\* the two has both bits clear.
AddRaw(x, y) ==
    LET n        == Len(x)
        gen      == { j \in 1..n : x[j] + y[j] = 2 }
        kill     == { k \in 1..n : x[k] + y[k] = 0 }
        carry(i) == IF \E j \in gen :
                           j > i /\ \A k \in kill : k <= i \/ k >= j
                    THEN 1
                    ELSE 0
    IN  SubSeq([i \in 1..(n + 1) |->
                   IF i = 1 THEN carry(0)
                   ELSE (x[i - 1] + y[i - 1] + carry(i - 1)) % 2],
               1, n + 1)

PadTo(bits, n) == Zeros(n - Len(bits)) \o bits

\* BigUint + BigUint
AddBits(x, y) ==
    LET n == IF Len(x) > Len(y) THEN Len(x) ELSE Len(y)
    IN  IF x = <<>> THEN y
        ELSE IF y = <<>> THEN x
        ELSE Strip(AddRaw(PadTo(x, n), PadTo(y, n)))

RECURSIVE NatToBits(_)
NatToBits(k) == IF k = 0 THEN <<>> ELSE NatToBits(k \div 2) \o <<k % 2>>

\* BigUint * small natural: a shift when the BigUint is a power of two,
\* shift and add otherwise
RECURSIVE MulSmall(_, _)
MulSmall(bits, k) ==
    IF k = 0 \/ bits = <<>> THEN <<>>
    ELSE IF k = 1 THEN bits
    ELSE IF Tail(bits) = Zeros(Len(bits) - 1)
         THEN NatToBits(k) \o Tail(bits)
    ELSE LET half == MulSmall(bits, k \div 2)
             dbl  == IF half = <<>> THEN <<>> ELSE half \o <<0>>
         IN  IF k % 2 = 1 THEN AddBits(dbl, bits) ELSE dbl

\* x <= y on BigUints
\* on two bit sequences of one length: the first bit that differs decides
LexLe(x, y) ==
    LET diff == { i \in 1..Len(x) : x[i] # y[i] }
    IN  \/ diff = {}
        \/ x[CHOOSE i \in diff : \A j \in diff : i <= j] = 0

BitsLe(x, y) ==
    IF Len(x) # Len(y) THEN Len(x) < Len(y) ELSE LexLe(x, y)

BitsLt(x, y) == ~BitsLe(y, x)

\* BigUint::parse_bytes(_, 16) of a string of hex digits
HexDigit(c) == IF c = "f" THEN 15 ELSE 0

ParseRaw(str) ==
    LET n == 4 * Len(str)
    IN  SubSeq([i \in 1..n |->
                   (HexDigit(str[((i - 1) \div 4) + 1])
                        \div (2 ^ (3 - ((i - 1) % 4)))) % 2],
               1, n)

ParseBytes16(str) == Strip(ParseRaw(str))

\* ------------------------------------------------------------ get_largest
\* get_largest without the + 1
GetLargestNoIncrement(length) ==
    LET len2 == length * 2
        fs   == [i \in 1..len2 |-> "f"]
    IN  ParseBytes16(fs)

get_largest(length) ==
    LET len2    == length * 2
        fs      == [i \in 1..len2 |-> "f"]
        largest == AddBits(ParseBytes16(fs), <<1>>)
    IN  largest

\* ------------------------------------------------------------------- f64
\* BigUint::to_f64: round to nearest, ties to even, on MantBits bits
ToF64(x) ==
    IF Len(x) <= MantBits THEN x
    ELSE LET top    == SubSeq(x, 1, MantBits)
             rest   == SubSeq(x, MantBits + 1, Len(x))
             sticky == \E i \in 2..Len(rest) : rest[i] = 1
             up     == rest[1] = 1 /\ (sticky \/ top[MantBits] = 1)
             man    == IF up THEN AddBits(top, <<1>>) ELSE top
         IN  man \o Zeros(Len(rest))

\* threshold / (total_money as f64)
DivThreshold(threshold, total_money) == [num |-> threshold, den |-> total_money]

\* num / denom
DivF64(num, denom) == [num |-> num, den |-> denom]

\* ----------------------------------------------------------------- statrs
RECURSIVE Pow(_, _)
Pow(a, b) == IF b = 0 THEN 1 ELSE a * Pow(a, b - 1)

RECURSIVE Binom(_, _)
Binom(n, k) ==
    IF k = 0 \/ k = n THEN 1 ELSE Binom(n - 1, k - 1) + Binom(n - 1, k)

\* Binomial::new(p, n) is Err when p is NaN, p < 0 or p > 1
BinomialNewOk(p) == p.den > 0 /\ 0 <= p.num /\ p.num <= p.den

RECURSIVE CdfSum(_, _, _)
CdfSum(p, n, k) ==
    IF k < 0 THEN 0
    ELSE Binom(n, k) * Pow(p.num, k) * Pow(p.den - p.num, n - k)
             + CdfSum(p, n, k - 1)

\* Binomial::cdf(x) of Binomial(n, p), as the fraction num / den
Cdf(p, n, x) ==
    IF x < 0 THEN [num |-> 0, den |-> 1]
    ELSE IF x >= n THEN [num |-> 1, den |-> 1]
    ELSE [num |-> CdfSum(p, n, x), den |-> Pow(p.den, n)]

\* ratio <= boundary
RatioLe(ratio, boundary) ==
    BitsLe(MulSmall(ratio.num, boundary.den), MulSmall(ratio.den, boundary.num))

\* ---------------------------------------------------------------- lottery
\* boundary <= ratio
BoundaryLe(boundary, ratio) ==
    BitsLe(MulSmall(ratio.den, boundary.num), MulSmall(ratio.num, boundary.den))

\* the loop of lottery with the comparison turned round
RECURSIVE LoopGe(_, _, _, _)
LoopGe(ratio, dist, money, i) ==
    IF i >= money THEN money
    ELSE IF BoundaryLe(Cdf(dist, money, i), ratio) THEN i
    ELSE LoopGe(ratio, dist, money, i + 1)

\* the loop of lottery with a strict comparison
RECURSIVE LoopLt(_, _, _, _)
LoopLt(ratio, dist, money, i) ==
    IF i >= money THEN money
    ELSE IF ~BoundaryLe(Cdf(dist, money, i), ratio) THEN i
    ELSE LoopLt(ratio, dist, money, i + 1)

\* for i in 0..money { if ratio <= dist.cdf(i) { return i } } return money
RECURSIVE LotteryLoop(_, _, _, _)
LotteryLoop(ratio, dist, money, i) ==
    IF i >= money THEN money
    ELSE IF RatioLe(ratio, Cdf(dist, money, i)) THEN i
    ELSE LotteryLoop(ratio, dist, money, i + 1)

NoRatio == [num |-> <<>>, den |-> <<>>]

\* lottery: the value returned, or the panic of the unwrap of Binomial::new,
\* with the locals of the call
lottery(hash, threshold, money, total_money) ==
    LET p == DivThreshold(threshold, total_money)
    IN  IF ~BinomialNewOk(p)
        THEN [panic |-> TRUE, hash |-> hash, p |-> p, largest |-> <<>>,
              ratio |-> NoRatio, val |-> 0]
        ELSE LET num     == ToF64(FromBytesBe(hash))
                 largest == get_largest(Len(hash))
                 denom   == ToF64(largest)
                 ratio   == DivF64(num, denom)
             IN  [panic |-> FALSE, hash |-> hash, p |-> p,
                  largest |-> largest, ratio |-> ratio,
                  val |-> LotteryLoop(ratio, p, money, 0)]

\* -------------------------------------------------------------------- VRF
SecretKeys == {"sk_a", "sk_malformed"}
PublicKeys == {"pk_a", "pk_b"}
Seeds == {"random_seed", "other_seed"}

HashFirst == {0, 64, 128, 192, 255}
HashFill == {0, 255}

\* short hashes, which an f64 holds exactly, and long ones, which it rounds
HashLens == {1, 2, MaxHashLen - 1, MaxHashLen}

\* the VRF outputs the model draws from: a first byte, then one byte repeated
Hashes ==
    { <<f>> \o [i \in 1..(len - 1) |-> g] :
          f \in HashFirst, g \in HashFill, len \in HashLens }

Thresholds == (0 - 1)..MaxThreshold
Moneys == 0..MaxMoney
TotalMoneys == {0} \cup { 2 ^ k : k \in 0..MaxTotalExp }

Err == [ok |-> FALSE]
Ok(v) == [ok |-> TRUE, val |-> v]

\* vrf.derive_public_key
DerivePublicKey(sk) == IF sk = "sk_a" THEN Ok("pk_a") ELSE Err

\* vrf.prove(sk, seed); beta is the hash this proof determines
VrfProve(sk, seed, beta) ==
    IF DerivePublicKey(sk).ok
    THEN Ok([sk |-> sk, seed |-> seed, beta |-> beta, tampered |-> FALSE])
    ELSE Err

\* vrf.proof_to_hash(pi)
VrfProofToHash(pi) == Ok(pi.beta)

\* vrf.verify(pk, pi, seed)
VrfVerify(pk, pi, seed) ==
    IF ~pi.tampered /\ DerivePublicKey(pi.sk) = Ok(pk) /\ seed = pi.seed
    THEN Ok(pi.beta)
    ELSE Err

\* a proof with a byte changed
Tamper(pi) == [pi EXCEPT !.tampered = TRUE]

\* ---------------------------------------------------------- check_select
\* check_select: the pair returned, or the panic of an unwrap, with the
\* calls made on the VRF and the locals of lottery.  The function returns
\* (u64, Vec<u8>) and no Result: err, the error value handed to the caller,
\* is always "none".
check_select(sk, seed, threshold, money, total_money, beta) ==
    LET proved == VrfProve(sk, seed, beta)
    IN  IF ~proved.ok
        THEN [panic |-> TRUE, at |-> "prove", err |-> "none", calls |-> <<"prove">>,
              lottery_num |-> 0, pi |-> <<>>, lot |-> <<>>]
        ELSE LET pi   == proved.val
                 hash == VrfProofToHash(pi)
                 lot  == lottery(hash.val, threshold, money, total_money)
                 made == <<"prove", "proof_to_hash">>
             IN  IF lot.panic
                 THEN [panic |-> TRUE, at |-> "Binomial::new", err |-> "none",
                       calls |-> made,
                       lottery_num |-> 0, pi |-> <<>>, lot |-> lot]
                 ELSE [panic |-> FALSE, at |-> "", err |-> "none", calls |-> made,
                       lottery_num |-> lot.val, pi |-> pi, lot |-> lot]

\* --------------------------------------------------------- verify_select
\* verify_select that returns 0 for a proof the VRF accepts
VerifyRejectsOk(pk, pi, seed) ==
    LET beta == VrfVerify(pk, pi, seed)
    IN  [panic |-> FALSE, val |-> 0, beta |-> beta]

\* verify_select that unwraps the result of the VRF
VerifyUnwraps(pk, pi, seed) ==
    LET beta == VrfVerify(pk, pi, seed)
    IN  IF beta.ok THEN [panic |-> FALSE, val |-> 1, beta |-> beta]
        ELSE [panic |-> TRUE, val |-> 0, beta |-> beta]

\* verify_select: 1 when vrf.verify is Ok, 0 when it is Err
verify_select(pk, pi, seed) ==
    LET beta == VrfVerify(pk, pi, seed)
    IN  IF beta.ok THEN [panic |-> FALSE, val |-> 1, beta |-> beta]
        ELSE [panic |-> FALSE, val |-> 0, beta |-> beta]

\* ----------------------------------------------------------------- state
VARIABLES
    pc,        \* "start", "selected" (check_select was called), "verified"
    sel,       \* the call of check_select: its arguments and what it gave
    ver,       \* the call of verify_select: its arguments, the vote count
               \* announced with the proof, and what it gave
    vrfCalls   \* the calls made on the VRF so far

vars == <<pc, sel, ver, vrfCalls>>

Init ==
    /\ pc = "start"
    /\ sel = <<>>
    /\ ver = <<>>
    /\ vrfCalls = <<>>

\* a party calls check_select; beta is the hash its VRF gives for (sk, seed)
CheckSelect ==
    /\ pc = "start"
    /\ \E sk \in SecretKeys, seed \in Seeds, threshold \in Thresholds,
          money \in Moneys, total_money \in TotalMoneys, beta \in Hashes :
          LET r == check_select(sk, seed, threshold, money, total_money, beta)
          IN  /\ sel' = [sk |-> sk, seed |-> seed, threshold |-> threshold,
                         money |-> money, total_money |-> total_money,
                         ret |-> r]
              /\ vrfCalls' = vrfCalls \o r.calls
    /\ pc' = "selected"
    /\ UNCHANGED ver

\* a verifier receives a vote count and a proof (the one check_select
\* returned, or that proof with a byte changed) and calls verify_select;
\* the announced count is not a parameter of verify_select
VerifySelect ==
    /\ pc = "selected"
    /\ ~sel.ret.panic
    /\ \E pk \in PublicKeys, seed \in Seeds, claimed \in Moneys,
          pi \in {sel.ret.pi, Tamper(sel.ret.pi)} :
          /\ ver' = [pk |-> pk, pi |-> pi, seed |-> seed, claimed |-> claimed,
                     ret |-> verify_select(pk, pi, seed)]
          /\ vrfCalls' = Append(vrfCalls, "verify")
    /\ pc' = "verified"
    /\ UNCHANGED sel

Next == CheckSelect \/ VerifySelect

Spec == Init /\ [][Next]_vars

\* ---------------------------------------------------------------- claims
Selected == pc \in {"selected", "verified"}
\* check_select has just returned
SelOk == pc = "selected" /\ ~sel.ret.panic
Verified == pc = "verified"

RECURSIVE SumOver(_, _)
SumOver(f, S) ==
    IF S = {} THEN 0
    ELSE LET i == CHOOSE j \in S : TRUE IN f[i] + SumOver(f, S \ {i})

\* the integer of a bit sequence of at most 4 bytes, byte by byte
BitsToNat(bits) ==
    LET n == Len(bits)
        byte(b) == SumOver([i \in 0..7 |->
                               IF n - 8 * b - i >= 1
                               THEN bits[n - 8 * b - i] * 2 ^ i ELSE 0], 0..7)
    IN  SumOver([b \in 0..3 |-> byte(b) * 2 ^ (8 * b)], 0..3)

\* the vote count recomputed from the hash the VRF verified
ExpectedVoteCount ==
    lottery(ver.ret.beta.val, sel.threshold, sel.money, sel.total_money).val

\* C1: verify returns true exactly when the proof is valid for (publicKey,
\* seed) and the vote count recomputed from the verified hash equals the
\* announced vote count.
C1_VerifyChecksVoteCount ==
    Verified =>
        ((ver.ret.val = 1) <=>
            (ver.ret.beta.ok /\ ExpectedVoteCount = ver.claimed))

InvalidParameters(threshold, total_money) ==
    total_money = 0 \/ threshold < 0 \/ threshold > total_money

\* C2: on total_money = 0, threshold < 0 or threshold / total_money outside
\* [0,1], select fails with InvalidParameters before any call on the VRF.
C2_InvalidParametersBeforeVrf ==
    (Selected /\ InvalidParameters(sel.threshold, sel.total_money)) =>
        (/\ ~sel.ret.panic
         /\ sel.ret.err = "InvalidParameters"
         /\ sel.ret.calls = <<>>)

\* C3: with probability 1 (threshold = total_money) the vote count is the
\* whole stake, whatever hash the VRF gives, the all-zero hash included.
C3_ProbabilityOneGivesStake ==
    (SelOk /\ sel.threshold = sel.total_money) =>
        sel.ret.lottery_num = sel.money

\* C4: the vote count lies in [0, money] and is the smallest i in
\* [0, money] with ratio <= F(i), F the CDF of Binomial(money, p); it is
\* money exactly when no smaller i has ratio <= F(i).
C4_LotterySmallestCovering ==
    SelOk =>
        LET r == sel.ret.lot.ratio
            p == sel.ret.lot.p
            n == sel.money
            v == sel.ret.lottery_num
        IN  /\ v \in 0..n
            /\ RatioLe(r, Cdf(p, n, v))
            /\ \A j \in 0..(v - 1) : ~RatioLe(r, Cdf(p, n, j))
            /\ (v = n) <=> (\A j \in 0..(n - 1) : ~RatioLe(r, Cdf(p, n, j)))

\* a vote count strictly inside (0, money), from a ratio below 1
C4_Witness ==
    /\ SelOk
    /\ sel.ret.lottery_num > 0
    /\ sel.ret.lottery_num < sel.money
    /\ BitsLt(sel.ret.lot.ratio.num, sel.ret.lot.ratio.den)

\* C5: the proof returned by select, verified with the public key derived
\* from the same secret key and with the same seed, is accepted.
C5_RoundTrip ==
    (/\ Verified
     /\ ver.pi = sel.ret.pi
     /\ ver.seed = sel.seed
     /\ DerivePublicKey(sel.sk) = Ok(ver.pk)) =>
        (~ver.ret.panic /\ ver.ret.val = 1)

C5_Witness ==
    /\ Verified
    /\ ver.pi = sel.ret.pi
    /\ ver.seed = sel.seed
    /\ DerivePublicKey(sel.sk) = Ok(ver.pk)
    /\ sel.ret.lottery_num > 0

\* C6: when the VRF reports that the proof does not verify, verify gives
\* the negative result and does not panic.
C6_VerifyFailsClosed ==
    (Verified /\ ~VrfVerify(ver.pk, ver.pi, ver.seed).ok) =>
        (~ver.ret.panic /\ ver.ret.val = 0)

C6_Witness ==
    /\ Verified
    /\ ver.pi.tampered
    /\ ~ver.ret.beta.ok
    /\ ver.ret.val = 0

\* C7: when the VRF cannot produce a proof, select hands a VrfProofError
\* to its caller: no fatal abort, no defaulted result.
C7_ProveErrorSurfaced ==
    (Selected /\ ~VrfProve(sel.sk, sel.seed, <<0>>).ok) =>
        (~sel.ret.panic /\ sel.ret.err = "VrfProofError")

\* C8: get_largest(L) is exactly 2^(8L): in binary a one followed by 8L
\* zeros (and, where the number fits, the integer 2^(8L)).
C8_GetLargestIsPowerOfTwo ==
    SelOk =>
        LET len == Len(sel.ret.lot.hash)
        IN  /\ sel.ret.lot.largest = <<1>> \o Zeros(8 * len)
            /\ len <= 3 => BitsToNat(sel.ret.lot.largest) = 2 ^ (8 * len)

C8_Witness ==
    /\ SelOk
    /\ Len(sel.ret.lot.hash) >= 7
    /\ Len(sel.ret.lot.largest) = 8 * Len(sel.ret.lot.hash) + 1

\* C9: the ratio computed from a hash is strictly below 1, for every hash
\* length.
C9_RatioBelowOne ==
    SelOk => BitsLt(sel.ret.lot.ratio.num, sel.ret.lot.ratio.den)

\* the hashes of the length of h whose integer is above that of h
Above(h) ==
    { h2 \in Hashes :
          Len(h2) = Len(h) /\ BitsLt(FromBytesBe(h), FromBytesBe(h2)) }

\* C10: for two hashes of one length with H1 < H2 and the same threshold,
\* stake and total stake, the ratio and the vote count of H1 are not above
\* those of H2.
C10_LotteryMonotone ==
    SelOk =>
        \A h2 \in Above(sel.ret.lot.hash) :
            LET l2 == lottery(h2, sel.threshold, sel.money, sel.total_money)
            IN  /\ BitsLe(sel.ret.lot.ratio.num, l2.ratio.num)
                /\ sel.ret.lottery_num <= l2.val

\* a larger hash that gets strictly more votes
C10_Witness ==
    /\ SelOk
    /\ \E h2 \in Above(sel.ret.lot.hash) :
          sel.ret.lottery_num
              < lottery(h2, sel.threshold, sel.money, sel.total_money).val

====
